---- MODULE Spec2Model ----
(***************************************************************************)
(* Model of the credential cache of the Foxglove API client                *)
(* (rust/foxglove/src/api_client/credentials_provider.rs) together with    *)
(* the authorization call it makes through Device::authorize_remote_viz.   *)
(*                                                                         *)
(* Each element of Procs is a task that calls the public methods of one    *)
(* shared CredentialsProvider.  A step of the model is one atomic access   *)
(* to the shared state (the ArcSwapOption slot, the tokio Mutex, the       *)
(* network) by one task.  A task can be dropped (cancelled) only at an     *)
(* .await: while it waits for the mutex or for the network.                *)
(***************************************************************************)
EXTENDS Integers, FiniteSets, Sequences, TLC

\* Number of concurrent tasks sharing the provider.
NProcs == 2
\* Cap on the number of authorization requests sent in one behaviour.
MaxNet == 3

Procs == 1..NProcs

\* Option<Arc<RtcCredentials>>: None is 0, Some(c) is the number of the
\* authorization request that produced c (every successful authorization
\* yields a distinct credential).
None == 0
Creds == 1..MaxNet

\* Result values of a call.
NoResult == [kind |-> "none", val |-> 0]
Ok(c) == [kind |-> "ok", val |-> c]
\* Err(CredentialsError::FetchFailed(e)): val is the name of the variant of e.
ErrOf(e) == [kind |-> "err", val |-> e]
Cancelled == [kind |-> "cancelled", val |-> 0]

(***************************************************************************)
(* The request layer (client.rs, device.rs).  Strings are sequences of     *)
(* bytes.  A response is what the transport delivers: whether the request  *)
(* could be sent, the status, the body, and whether the body can be read.  *)
(***************************************************************************)

\* Longest device id and longest base URL / path drawn as an input.
MaxIdLen == 2
MaxUrlLen == 3

Slash == 47
Percent == 37

\* Bytes that device ids are drawn from: a Z 0 - ~ % space / and a non-ASCII
\* byte.
IdBytes == {97, 90, 48, 45, 126, Percent, 32, Slash, 195}
\* Bytes that base URLs and paths are drawn from: / and a.
UrlBytes == {Slash, 97}

SeqsUpTo(S, n) == UNION {[1..k -> S] : k \in 0..n}

DeviceIds == SeqsUpTo(IdBytes, MaxIdLen) \ {<<>>}
UrlStrings == SeqsUpTo(UrlBytes, MaxUrlLen)

\* u8::is_ascii_alphanumeric
IsAlphanumeric(b) == b \in (48..57) \cup (65..90) \cup (97..122)

\* A PATH_ENCODING built without .remove(b'~'): the tilde is encoded too.
InPathEncodingWithTilde(b) == ~IsAlphanumeric(b) /\ b \notin {45, 46, 95}

\* PATH_ENCODING: NON_ALPHANUMERIC without - . _ ~ ; a byte outside the set
\* is written as it is.
InPathEncoding(b) == ~IsAlphanumeric(b) /\ b \notin {45, 46, 95, 126}

\* The upper-case hexadecimal digit of n, as a byte.
HexDigit(n) == IF n < 10 THEN 48 + n ELSE 55 + n

\* percent_encode of one byte.
EncodeByte(b) ==
    IF InPathEncoding(b)
       THEN <<Percent, HexDigit(b \div 16), HexDigit(b % 16)>>
       ELSE <<b>>

\* encode_uri_component: percent_encode(component.as_bytes(), &PATH_ENCODING)
RECURSIVE encode_uri_component(_)
encode_uri_component(component) ==
    IF component = <<>> THEN <<>>
    ELSE EncodeByte(Head(component)) \o encode_uri_component(Tail(component))

\* strip_suffix('/') in place of trim_end_matches('/'): one slash is removed.
trim_end_once(str) ==
    IF str # <<>> /\ str[Len(str)] = Slash
       THEN SubSeq(str, 1, Len(str) - 1)
       ELSE str

\* str::trim_end_matches('/') and str::trim_start_matches('/').
RECURSIVE trim_end_matches(_)
trim_end_matches(str) ==
    IF str # <<>> /\ str[Len(str)] = Slash
       THEN trim_end_matches(SubSeq(str, 1, Len(str) - 1))
       ELSE str

RECURSIVE trim_start_matches(_)
trim_start_matches(str) ==
    IF str # <<>> /\ Head(str) = Slash
       THEN trim_start_matches(Tail(str))
       ELSE str

\* FoxgloveApiClient::request: the URL of a request for path.
RequestUrl(base, path) ==
    trim_end_matches(base) \o <<Slash>> \o trim_start_matches(path)

\* Stand-ins for "/internal/platform/v1/device-info" and for the two
\* literal parts of "/internal/platform/v1/devices/{device_id}/remote-sessions".
DeviceInfoPath == <<Slash, 105>>
DevicesPrefix == <<Slash, 100, Slash>>
RemoteSessionsSuffix == <<Slash, 114>>

\* The path Device::authorize_remote_viz posts to.
RemoteSessionsPath(id) ==
    DevicesPrefix \o encode_uri_component(id) \o RemoteSessionsSuffix

\* Statuses a response is drawn with: both sides of each class boundary.
Statuses == {200, 399, 400, 401, 499, 500, 599, 600}

\* StatusCode::is_client_error / is_server_error
IsClientError(status) == status >= 400 /\ status < 500
IsServerError(status) == status >= 500 /\ status < 600

\* A response body.  form "json" is a JSON object, described by the fields
\* the parsers look at: error and code (absent, a string, a number, null),
\* creds (token and url are both strings), info (the id of a well-formed
\* device record, or NoInfo).  The other forms are not JSON: readable text,
\* bytes that are not UTF-8, and the empty body.
NoInfo == <<>>
InfoIds == {<<97>>}
JsonBodies ==
    [form : {"json"}, error : {"absent", "str", "num"},
     code : {"absent", "str", "null", "num"}, creds : BOOLEAN,
     info : {NoInfo} \cup InfoIds]
PlainBody(f) ==
    [form |-> f, error |-> "absent", code |-> "absent", creds |-> FALSE,
     info |-> NoInfo]
EmptyBody == PlainBody("empty")
Bodies == JsonBodies \cup {PlainBody("text"), PlainBody("binary"), EmptyBody}

\* String::from_utf8_lossy(&body).to_string(): bytes that are not UTF-8 come
\* out with replacement characters.
FromUtf8Lossy(body) ==
    IF body.form = "binary" THEN PlainBody("replaced") ELSE body

\* serde_json::from_slice::<ErrorResponse>: error is a string, code is a
\* string, null or absent; other fields are ignored.
ParsesAsErrorResponse(body) ==
    /\ body.form = "json"
    /\ body.error = "str"
    /\ body.code \in {"absent", "str", "null"}

\* serde_json::from_slice::<RtcCredentials> and ::<DeviceResponse>
ParsesAsRtcCredentials(body) == body.form = "json" /\ body.creds
ParsesAsDeviceResponse(body) == body.form = "json" /\ body.info # NoInfo

\* The request could not be sent, or a response arrived.
Responses ==
    {[sendOk |-> FALSE, status |-> 0, body |-> EmptyBody, readable |-> FALSE]}
    \cup [sendOk : {TRUE}, status : Statuses, body : Bodies, readable : BOOLEAN]

\* Results of the request layer: kind is "Response", "Ok" or the name of the
\* error variant; status is 0 and detail is EmptyBody where the variant
\* carries none.
Result(kind, status, detail) ==
    [kind |-> kind, status |-> status, detail |-> detail]
NoOutcome == Result("none", 0, EmptyBody)

\* A send() that tests is_client_error() only: a 5xx response is returned
\* as a response.
SendClientErrorsOnly(resp) ==
    IF ~resp.sendOk THEN Result("SendRequest", 0, EmptyBody)
    ELSE IF IsClientError(resp.status)
       THEN LET body == IF resp.readable THEN resp.body ELSE EmptyBody
            IN  IF ParsesAsErrorResponse(body)
                   THEN Result("ErrorResponse", resp.status, body)
                   ELSE Result("MalformedErrorResponse", resp.status,
                               FromUtf8Lossy(body))
       ELSE Result("Response", resp.status, resp.body)

\* RequestBuilder::send
Send(resp) ==
    IF ~resp.sendOk THEN Result("SendRequest", 0, EmptyBody)
    ELSE IF IsClientError(resp.status) \/ IsServerError(resp.status)
       THEN LET body == IF resp.readable THEN resp.body ELSE EmptyBody
            IN  IF ParsesAsErrorResponse(body)
                   THEN Result("ErrorResponse", resp.status, body)
                   ELSE Result("MalformedErrorResponse", resp.status,
                               FromUtf8Lossy(body))
       ELSE Result("Response", resp.status, resp.body)

\* What follows .send().await? in fetch_device_info and
\* authorize_remote_viz: response.bytes() and serde_json::from_slice; parses
\* tells whether from_slice accepts the body as the type the caller asks for.
ReadAndParse(resp, parses) ==
    LET sent == Send(resp)
    IN  IF sent.kind # "Response" THEN sent
        ELSE IF ~resp.readable THEN Result("LoadResponseBytes", 0, EmptyBody)
        ELSE IF parses THEN Result("Ok", resp.status, resp.body)
        ELSE Result("ParseResponse", 0, EmptyBody)

\* FoxgloveApiClient::fetch_device_info, given whether a token is configured
\* and the response the request would get.
fetch_device_info(token, resp) ==
    IF ~token THEN Result("NoToken", 0, EmptyBody)
    ELSE ReadAndParse(resp, ParsesAsDeviceResponse(resp.body))

\* Device::authorize_remote_viz (and FoxgloveApiClient::authorize_remote_viz)
authorize_remote_viz(token, resp) ==
    IF ~token THEN Result("NoToken", 0, EmptyBody)
    ELSE ReadAndParse(resp, ParsesAsRtcCredentials(resp.body))

\* The ways an authorization request that was sent can end, and the error
\* variants among them.
AuthorizeOutcomes == {authorize_remote_viz(TRUE, r).kind : r \in Responses}
AuthorizeErrors == AuthorizeOutcomes \ {"Ok"}

VARIABLES
    credentials,   \* CredentialsProvider.credentials: None or a credential
    refresh_lock,  \* CredentialsProvider.refresh_lock: 0 (free) or the holder
    pc,            \* pc[p]: where task p is inside its call
    op,            \* op[p]: the method task p is running or ran last
    req,           \* req[p]: the credential of p's authorization request
    ret,           \* ret[p]: the result of p's call
    seen,          \* seen[p]: the slot as it was when p's call began
    calls,         \* calls[p]: authorization requests sent by p's call
    clearedSince,  \* clearedSince[p]: a clear() ran since p's call began
    netCalls,      \* authorization requests sent so far
    netAborted,    \* of those, the ones that failed or were dropped
    cleared,       \* some clear() has returned
    removed,       \* the credentials that a clear() took out of the slot
    device_token,  \* FoxgloveApiClient.device_token is Some
    base_url,      \* FoxgloveApiClient.base_url
    info,          \* Device.info.id, NoInfo while there is no Device
    constructed,   \* Device::new: "no" (not called), "ok" or "failed"
    infoFetches,   \* GET device-info requests sent so far
    request,       \* the request the client built last
    inflight,      \* the client call that awaits its response, or "none"
    answered,      \* the call that returned last and the response it got
    outcome        \* the result of the call that returned last

\* The state of the client and of the device.
clientVars == <<device_token, base_url, info, constructed, infoFetches,
                request, inflight, answered, outcome>>

vars == <<credentials, refresh_lock, pc, op, req, ret, seen, calls,
          clearedSince, netCalls, netAborted, cleared, removed>>

TypeOK ==
    /\ credentials \in {None} \cup Creds
    /\ refresh_lock \in {0} \cup Procs
    /\ pc \in [Procs -> {"idle", "wait", "locked", "net", "got", "unlock"}]
    /\ op \in [Procs -> {"none", "current", "load", "refresh", "clear"}]
    /\ req \in [Procs -> {None} \cup Creds]
    /\ ret \in [Procs -> [kind : {"none", "ok", "cancelled"}, val : {None} \cup Creds]
                          \cup {ErrOf(e) : e \in AuthorizeErrors \cup {"NoToken"}}]
    /\ seen \in [Procs -> {None} \cup Creds]
    /\ calls \in [Procs -> 0..MaxNet]
    /\ clearedSince \in [Procs -> BOOLEAN]
    /\ netCalls \in 0..MaxNet
    /\ netAborted \in 0..MaxNet
    /\ cleared \in BOOLEAN
    /\ removed \in SUBSET Creds
    /\ device_token \in BOOLEAN
    /\ base_url \in UrlStrings
    /\ info \in {NoInfo} \cup InfoIds
    /\ constructed \in {"no", "ok", "failed"}
    /\ infoFetches \in 0..1
    /\ request.method \in {"none", "GET", "POST"}
    /\ inflight \in {"none", "send", "fetch", "authorize", "new"}
    /\ answered.op \in {"none", "send", "fetch", "authorize"}
    /\ answered.resp \in Responses
    /\ outcome.kind \in {"none", "NoToken", "Response", "Ok"} \cup AuthorizeErrors

\* DEFAULT_API_URL, as a string of the model.
DefaultApiUrl == <<97>>

NoRequest == [method |-> "none", path |-> <<>>, url |-> <<>>, id |-> <<>>]
NoResponse ==
    [sendOk |-> FALSE, status |-> 0, body |-> EmptyBody, readable |-> FALSE]
NoAnswer == [op |-> "none", resp |-> NoResponse]

\* The client and the device after a Device::new that succeeded: the token
\* is set, one device-info request was sent and its record is stored.
DeviceReady ==
    /\ device_token = TRUE
    /\ base_url = DefaultApiUrl
    /\ info = <<97>>
    /\ constructed = "ok"
    /\ infoFetches = 1
    /\ request = NoRequest
    /\ inflight = "none"
    /\ answered = NoAnswer
    /\ outcome = NoOutcome

\* CredentialsProvider::new: empty slot, unlocked mutex.
ProviderNew ==
    /\ credentials = None
    /\ refresh_lock = 0
    /\ pc = [p \in Procs |-> "idle"]
    /\ op = [p \in Procs |-> "none"]
    /\ req = [p \in Procs |-> None]
    /\ ret = [p \in Procs |-> NoResult]
    /\ seen = [p \in Procs |-> None]
    /\ calls = [p \in Procs |-> 0]
    /\ clearedSince = [p \in Procs |-> FALSE]
    /\ netCalls = 0
    /\ netAborted = 0
    /\ cleared = FALSE
    /\ removed = {}

\* CredentialsProvider::new(device) on a device that Device::new returned.
Init == ProviderNew /\ DeviceReady

\* Bookkeeping common to the first step of every call of task p; the
\* provider exists once its device is constructed.
Begin(p, method) ==
    /\ constructed = "ok"
    /\ pc[p] = "idle"
    /\ op' = [op EXCEPT ![p] = method]
    /\ seen' = [seen EXCEPT ![p] = credentials]

\* Device::authorize_remote_viz up to .send(): without a device token it
\* returns NoToken, otherwise the POST .../remote-sessions is sent.  sent is
\* the number of requests p's call has sent before this one, leave is where
\* the call goes when refresh() returns.
AuthorizeSend(p, sent, leave) ==
    IF device_token
       THEN /\ netCalls < MaxNet
            /\ netCalls' = netCalls + 1
            /\ req' = [req EXCEPT ![p] = netCalls + 1]
            /\ calls' = [calls EXCEPT ![p] = sent + 1]
            /\ pc' = [pc EXCEPT ![p] = "net"]
            /\ ret' = [ret EXCEPT ![p] = NoResult]
       ELSE /\ ret' = [ret EXCEPT ![p] = ErrOf("NoToken")]
            /\ req' = [req EXCEPT ![p] = None]
            /\ calls' = [calls EXCEPT ![p] = sent]
            /\ pc' = [pc EXCEPT ![p] = leave]
            /\ UNCHANGED netCalls

\* current_credentials(): one lock-free load of the slot.
CurrentCredentials(p) ==
    /\ Begin(p, "current")
    /\ ret' = [ret EXCEPT ![p] = Ok(credentials)]
    /\ req' = [req EXCEPT ![p] = None]
    /\ calls' = [calls EXCEPT ![p] = 0]
    /\ clearedSince' = [clearedSince EXCEPT ![p] = FALSE]
    /\ UNCHANGED <<credentials, refresh_lock, pc, netCalls, netAborted, cleared>>
    /\ UNCHANGED removed
    /\ UNCHANGED clientVars

\* A clear() that serialises with refreshes: it runs only while the mutex is free.
ClearUnderLock(p) ==
    /\ refresh_lock = 0
    /\ Begin(p, "clear")
    /\ credentials' = None
    /\ cleared' = TRUE
    /\ ret' = [ret EXCEPT ![p] = Ok(None)]
    /\ req' = [req EXCEPT ![p] = None]
    /\ calls' = [calls EXCEPT ![p] = 0]
    /\ clearedSince' = [q \in Procs |-> q # p]
    /\ UNCHANGED <<refresh_lock, pc, netCalls, netAborted>>
    /\ removed' = removed \cup ({credentials} \ {None})
    /\ UNCHANGED clientVars

\* clear(): store None into the slot.
Clear(p) ==
    /\ Begin(p, "clear")
    /\ credentials' = None
    /\ cleared' = TRUE
    /\ ret' = [ret EXCEPT ![p] = Ok(None)]
    /\ req' = [req EXCEPT ![p] = None]
    /\ calls' = [calls EXCEPT ![p] = 0]
    /\ clearedSince' = [q \in Procs |-> q # p]
    /\ UNCHANGED <<refresh_lock, pc, netCalls, netAborted>>
    /\ removed' = removed \cup ({credentials} \ {None})
    /\ UNCHANGED clientVars

\* A load_credentials() without the first check: it always goes for the mutex.
LoadStartAlwaysLock(p) ==
    /\ Begin(p, "load")
    /\ req' = [req EXCEPT ![p] = None]
    /\ calls' = [calls EXCEPT ![p] = 0]
    /\ clearedSince' = [clearedSince EXCEPT ![p] = FALSE]
    /\ ret' = [ret EXCEPT ![p] = NoResult]
    /\ pc' = [pc EXCEPT ![p] = "wait"]
    /\ UNCHANGED <<credentials, refresh_lock, netCalls, netAborted, cleared>>
    /\ UNCHANGED removed
    /\ UNCHANGED clientVars

\* load_credentials(), first check: return the cached credential, or go on
\* to refresh_lock.lock().await.
LoadStart(p) ==
    /\ Begin(p, "load")
    /\ req' = [req EXCEPT ![p] = None]
    /\ calls' = [calls EXCEPT ![p] = 0]
    /\ clearedSince' = [clearedSince EXCEPT ![p] = FALSE]
    /\ IF credentials # None
          THEN /\ ret' = [ret EXCEPT ![p] = Ok(credentials)]
               /\ UNCHANGED pc
          ELSE /\ ret' = [ret EXCEPT ![p] = NoResult]
               /\ pc' = [pc EXCEPT ![p] = "wait"]
    /\ UNCHANGED <<credentials, refresh_lock, netCalls, netAborted, cleared>>
    /\ UNCHANGED removed
    /\ UNCHANGED clientVars

\* A lock() that does not exclude: p takes the mutex whoever holds it.
LoadAcquireBarging(p) ==
    /\ pc[p] = "wait"
    /\ refresh_lock' = p
    /\ pc' = [pc EXCEPT ![p] = "locked"]
    /\ UNCHANGED <<credentials, op, req, ret, seen, calls, clearedSince,
                   netCalls, netAborted, cleared>>
    /\ UNCHANGED removed
    /\ UNCHANGED clientVars

\* `let _ = self.refresh_lock.lock().await`: the guard is dropped at once.
LoadAcquireGuardDropped(p) ==
    /\ pc[p] = "wait"
    /\ refresh_lock = 0
    /\ refresh_lock' = 0
    /\ pc' = [pc EXCEPT ![p] = "locked"]
    /\ UNCHANGED <<credentials, op, req, ret, seen, calls, clearedSince,
                   netCalls, netAborted, cleared>>
    /\ UNCHANGED removed
    /\ UNCHANGED clientVars

\* refresh_lock.lock().await completes: the mutex was free and p takes it.
LoadAcquire(p) ==
    /\ pc[p] = "wait"
    /\ refresh_lock = 0
    /\ refresh_lock' = p
    /\ pc' = [pc EXCEPT ![p] = "locked"]
    /\ UNCHANGED <<credentials, op, req, ret, seen, calls, clearedSince,
                   netCalls, netAborted, cleared>>
    /\ UNCHANGED removed
    /\ UNCHANGED clientVars

\* A refresh() that takes the mutex itself: called from load_credentials(),
\* which holds it, it waits for its own caller.
LoadRecheckRelocks(p) ==
    /\ pc[p] = "locked"
    /\ IF credentials # None
          THEN /\ ret' = [ret EXCEPT ![p] = Ok(credentials)]
               /\ pc' = [pc EXCEPT ![p] = "unlock"]
               /\ UNCHANGED <<req, calls, netCalls>>
          ELSE /\ refresh_lock = 0
               /\ AuthorizeSend(p, calls[p], "unlock")
    /\ UNCHANGED <<credentials, refresh_lock, op, seen, clearedSince,
                   netAborted, cleared>>
    /\ UNCHANGED removed
    /\ UNCHANGED clientVars

\* A load_credentials() that, finding the slot empty after another caller's
\* request failed, returns an error without a request of its own.
LoadRecheckSharesFailure(p) ==
    /\ pc[p] = "locked"
    /\ IF credentials # None
          THEN /\ ret' = [ret EXCEPT ![p] = Ok(credentials)]
               /\ pc' = [pc EXCEPT ![p] = "unlock"]
               /\ UNCHANGED <<req, calls, netCalls>>
          ELSE IF netAborted > 0
             THEN /\ ret' = [ret EXCEPT ![p] = ErrOf("SendRequest")]
                  /\ pc' = [pc EXCEPT ![p] = "unlock"]
                  /\ UNCHANGED <<req, calls, netCalls>>
             ELSE AuthorizeSend(p, calls[p], "unlock")
    /\ UNCHANGED <<credentials, refresh_lock, op, seen, clearedSince,
                   netAborted, cleared>>
    /\ UNCHANGED removed
    /\ UNCHANGED clientVars

\* A load_credentials() without the second check: it refreshes whenever it
\* gets the mutex.
LoadRecheckSkipped(p) ==
    /\ pc[p] = "locked"
    /\ AuthorizeSend(p, calls[p], "unlock")
    /\ UNCHANGED <<credentials, refresh_lock, op, seen, clearedSince,
                   netAborted, cleared>>
    /\ UNCHANGED removed
    /\ UNCHANGED clientVars

\* load_credentials(), second check under the mutex: return what another
\* caller installed, or call refresh().
LoadRecheck(p) ==
    /\ pc[p] = "locked"
    /\ IF credentials # None
          THEN /\ ret' = [ret EXCEPT ![p] = Ok(credentials)]
               /\ pc' = [pc EXCEPT ![p] = "unlock"]
               /\ UNCHANGED <<req, calls, netCalls>>
          ELSE AuthorizeSend(p, calls[p], "unlock")
    /\ UNCHANGED <<credentials, refresh_lock, op, seen, clearedSince,
                   netAborted, cleared>>
    /\ UNCHANGED removed
    /\ UNCHANGED clientVars

\* A refresh() that returns the cached credential when there is one.
RefreshStartCached(p) ==
    /\ Begin(p, "refresh")
    /\ clearedSince' = [clearedSince EXCEPT ![p] = FALSE]
    /\ IF credentials # None
          THEN /\ ret' = [ret EXCEPT ![p] = Ok(credentials)]
               /\ req' = [req EXCEPT ![p] = None]
               /\ calls' = [calls EXCEPT ![p] = 0]
               /\ UNCHANGED <<pc, netCalls>>
          ELSE AuthorizeSend(p, 0, "idle")
    /\ UNCHANGED <<credentials, refresh_lock, netAborted, cleared>>
    /\ UNCHANGED removed
    /\ UNCHANGED clientVars

\* A refresh() that resolves the device again before it authorizes.
RefreshStartRefetches(p) ==
    /\ Begin(p, "refresh")
    /\ clearedSince' = [clearedSince EXCEPT ![p] = FALSE]
    /\ AuthorizeSend(p, 0, "idle")
    /\ infoFetches' = infoFetches + 1
    /\ UNCHANGED <<credentials, refresh_lock, netAborted, cleared>>
    /\ UNCHANGED removed
    /\ UNCHANGED <<device_token, base_url, info, constructed, request,
                   inflight, answered, outcome>>

\* refresh() called directly: no check of the slot, no mutex.
RefreshStart(p) ==
    /\ Begin(p, "refresh")
    /\ clearedSince' = [clearedSince EXCEPT ![p] = FALSE]
    /\ AuthorizeSend(p, 0, "idle")
    /\ UNCHANGED <<credentials, refresh_lock, netAborted, cleared>>
    /\ UNCHANGED removed
    /\ UNCHANGED clientVars

\* Where a call goes when refresh() returns: a load_credentials() still has
\* its guard to drop.
Leave(p) == IF op[p] = "load" THEN "unlock" ELSE "idle"

\* authorize_remote_viz returns Ok(credentials).
AuthOk(p) ==
    /\ pc[p] = "net"
    /\ "Ok" \in AuthorizeOutcomes
    /\ pc' = [pc EXCEPT ![p] = "got"]
    /\ UNCHANGED <<credentials, refresh_lock, op, req, ret, seen, calls,
                   clearedSince, netCalls, netAborted, cleared>>
    /\ UNCHANGED removed
    /\ UNCHANGED clientVars

\* A load_credentials() that tries again when the authorization fails.
AuthFailRetry(p) ==
    /\ pc[p] = "net"
    /\ netAborted' = netAborted + 1
    /\ IF op[p] = "load"
          THEN /\ pc' = [pc EXCEPT ![p] = "locked"]
               /\ UNCHANGED ret
          ELSE /\ pc' = [pc EXCEPT ![p] = "idle"]
               /\ \E e \in AuthorizeErrors : ret' = [ret EXCEPT ![p] = ErrOf(e)]
    /\ UNCHANGED <<credentials, refresh_lock, op, req, seen, calls,
                   clearedSince, netCalls, cleared>>
    /\ UNCHANGED removed
    /\ UNCHANGED clientVars

\* A refresh() that empties the slot when the authorization fails.
AuthFailClears(p) ==
    /\ pc[p] = "net"
    /\ credentials' = None
    /\ \E e \in AuthorizeErrors : ret' = [ret EXCEPT ![p] = ErrOf(e)]
    /\ netAborted' = netAborted + 1
    /\ pc' = [pc EXCEPT ![p] = Leave(p)]
    /\ UNCHANGED <<refresh_lock, op, req, seen, calls,
                   clearedSince, netCalls, cleared>>
    /\ UNCHANGED removed
    /\ UNCHANGED clientVars

\* A refresh() that sends the request again when the authorization fails.
AuthFailSendsAgain(p) ==
    /\ pc[p] = "net"
    /\ netAborted' = netAborted + 1
    /\ netCalls < MaxNet
    /\ netCalls' = netCalls + 1
    /\ req' = [req EXCEPT ![p] = netCalls + 1]
    /\ calls' = [calls EXCEPT ![p] = @ + 1]
    /\ UNCHANGED <<credentials, refresh_lock, pc, op, ret, seen,
                   clearedSince, cleared>>
    /\ UNCHANGED removed
    /\ UNCHANGED clientVars

\* A refresh() that rolls back when the authorization fails: it puts the
\* credential it found at its start back into the slot.
AuthFailRestores(p) ==
    /\ pc[p] = "net"
    /\ \E e \in AuthorizeErrors : ret' = [ret EXCEPT ![p] = ErrOf(e)]
    /\ netAborted' = netAborted + 1
    /\ pc' = [pc EXCEPT ![p] = Leave(p)]
    /\ credentials' = seen[p]
    /\ UNCHANGED <<refresh_lock, op, req, seen, calls,
                   clearedSince, netCalls, cleared>>
    /\ UNCHANGED removed
    /\ UNCHANGED clientVars

\* authorize_remote_viz returns one of its errors: the ? in refresh()
\* returns it, nothing is stored.
AuthFail(p) ==
    /\ pc[p] = "net"
    /\ \E e \in AuthorizeErrors : ret' = [ret EXCEPT ![p] = ErrOf(e)]
    /\ netAborted' = netAborted + 1
    /\ pc' = [pc EXCEPT ![p] = Leave(p)]
    /\ UNCHANGED <<credentials, refresh_lock, op, req, seen, calls,
                   clearedSince, netCalls, cleared>>
    /\ UNCHANGED removed
    /\ UNCHANGED clientVars

\* A refresh() that discards its result when a clear() ran meanwhile.
StoreUnlessCleared(p) ==
    /\ pc[p] = "got"
    /\ credentials' = IF clearedSince[p] THEN credentials ELSE req[p]
    /\ ret' = [ret EXCEPT ![p] = Ok(req[p])]
    /\ pc' = [pc EXCEPT ![p] = Leave(p)]
    /\ UNCHANGED <<refresh_lock, op, req, seen, calls, clearedSince,
                   netCalls, netAborted, cleared>>
    /\ UNCHANGED removed
    /\ UNCHANGED clientVars

\* refresh(): self.credentials.store(Some(credentials.clone())); Ok(credentials)
Store(p) ==
    /\ pc[p] = "got"
    /\ credentials' = req[p]
    /\ ret' = [ret EXCEPT ![p] = Ok(req[p])]
    /\ pc' = [pc EXCEPT ![p] = Leave(p)]
    /\ UNCHANGED <<refresh_lock, op, req, seen, calls, clearedSince,
                   netCalls, netAborted, cleared>>
    /\ UNCHANGED removed
    /\ UNCHANGED clientVars

\* load_credentials() returns: _refresh_guard is dropped.
Unlock(p) ==
    /\ pc[p] = "unlock"
    /\ refresh_lock' = 0
    /\ pc' = [pc EXCEPT ![p] = "idle"]
    /\ UNCHANGED <<credentials, op, req, ret, seen, calls, clearedSince,
                   netCalls, netAborted, cleared>>
    /\ UNCHANGED removed
    /\ UNCHANGED clientVars

\* The caller drops the future while it waits for the mutex.
CancelWait(p) ==
    /\ pc[p] = "wait"
    /\ ret' = [ret EXCEPT ![p] = Cancelled]
    /\ pc' = [pc EXCEPT ![p] = "idle"]
    /\ UNCHANGED <<credentials, refresh_lock, op, req, seen, calls,
                   clearedSince, netCalls, netAborted, cleared>>
    /\ UNCHANGED removed
    /\ UNCHANGED clientVars

\* A cancellation that leaves the mutex locked (no guard to drop).
CancelNetKeepsLock(p) ==
    /\ pc[p] = "net"
    /\ ret' = [ret EXCEPT ![p] = Cancelled]
    /\ netAborted' = netAborted + 1
    /\ pc' = [pc EXCEPT ![p] = "idle"]
    /\ UNCHANGED <<credentials, refresh_lock, op, req, seen, calls,
                   clearedSince, netCalls, cleared>>
    /\ UNCHANGED removed
    /\ UNCHANGED clientVars

\* The caller drops the future while it waits for the network: the request
\* is abandoned and, in load_credentials(), the guard is dropped with it.
CancelNet(p) ==
    /\ pc[p] = "net"
    /\ ret' = [ret EXCEPT ![p] = Cancelled]
    /\ netAborted' = netAborted + 1
    /\ refresh_lock' = IF op[p] = "load" THEN 0 ELSE refresh_lock
    /\ pc' = [pc EXCEPT ![p] = "idle"]
    /\ UNCHANGED <<credentials, op, req, seen, calls, clearedSince,
                   netCalls, cleared>>
    /\ UNCHANGED removed
    /\ UNCHANGED clientVars

\* The steps of load_credentials() and of the refresh() it calls.
LoadStep(p) ==
    \/ LoadStart(p)
    \/ LoadAcquire(p)
    \/ LoadRecheck(p)
    \/ AuthOk(p)
    \/ AuthFail(p)
    \/ Store(p)
    \/ Unlock(p)
    \/ CancelWait(p)
    \/ CancelNet(p)

Next ==
    \E p \in Procs :
        \/ CurrentCredentials(p)
        \/ Clear(p)
        \/ RefreshStart(p)
        \/ LoadStep(p)

Spec == Init /\ [][Next]_vars

(***************************************************************************)
(* The client on its own: a FoxgloveApiClient as its builder returns it,   *)
(* with or without a device token, and the calls made on it one at a time. *)
(* The client keeps nothing from one call to the next but its token, so a  *)
(* behaviour follows calls up to the first one that gets a response.       *)
(***************************************************************************)

\* FoxgloveApiClientBuilder::build
InitClient ==
    /\ ProviderNew
    /\ device_token \in BOOLEAN
    /\ base_url \in UrlStrings
    /\ info = NoInfo
    /\ constructed = "no"
    /\ infoFetches = 0
    /\ request = NoRequest
    /\ inflight = "none"
    /\ answered = NoAnswer
    /\ outcome = NoOutcome

\* FoxgloveApiClient::request, as get() and post() call it.
BuildRequest(method, path, id) ==
    [method |-> method, path |-> path, url |-> RequestUrl(base_url, path),
     id |-> id]

\* FoxgloveApiClient::set_device_token
SetDeviceToken ==
    /\ inflight = "none"
    /\ ~device_token
    /\ device_token' = TRUE
    /\ UNCHANGED <<base_url, info, constructed, infoFetches, request,
                   inflight, answered, outcome>>
    /\ UNCHANGED vars

\* client.get(path).send() or client.post(path).send(): the request goes out.
RequestStart(method, path) ==
    /\ inflight = "none"
    /\ answered = NoAnswer
    /\ request' = BuildRequest(method, path, <<>>)
    /\ inflight' = "send"
    /\ outcome' = NoOutcome
    /\ UNCHANGED <<device_token, base_url, info, constructed, infoFetches,
                   answered>>
    /\ UNCHANGED vars

\* A fetch_device_info that builds and sends its request before it looks
\* for the token.
FetchStartSendsFirst ==
    /\ inflight = "none"
    /\ answered = NoAnswer
    /\ infoFetches' = infoFetches + 1
    /\ IF ~device_token
          THEN /\ outcome' = Result("NoToken", 0, EmptyBody)
               /\ UNCHANGED <<request, inflight>>
          ELSE /\ request' = BuildRequest("GET", DeviceInfoPath, <<>>)
               /\ inflight' = "fetch"
               /\ outcome' = NoOutcome
    /\ UNCHANGED <<device_token, base_url, info, constructed, answered>>
    /\ UNCHANGED vars

\* FoxgloveApiClient::fetch_device_info up to .send(): NoToken without a
\* token, otherwise the GET device-info request goes out.
FetchStart ==
    /\ inflight = "none"
    /\ answered = NoAnswer
    /\ IF ~device_token
          THEN /\ outcome' = Result("NoToken", 0, EmptyBody)
               /\ UNCHANGED <<request, inflight, infoFetches>>
          ELSE /\ request' = BuildRequest("GET", DeviceInfoPath, <<>>)
               /\ infoFetches' = infoFetches + 1
               /\ inflight' = "fetch"
               /\ outcome' = NoOutcome
    /\ UNCHANGED <<device_token, base_url, info, constructed, answered>>
    /\ UNCHANGED vars

\* authorize_remote_viz for device id up to .send(): NoToken without a
\* token, otherwise the POST remote-sessions request goes out.
AuthorizeStart(id) ==
    /\ inflight = "none"
    /\ answered = NoAnswer
    /\ IF ~device_token
          THEN /\ outcome' = Result("NoToken", 0, EmptyBody)
               /\ UNCHANGED <<request, inflight, netCalls>>
          ELSE /\ netCalls < MaxNet
               /\ request' = BuildRequest("POST", RemoteSessionsPath(id), id)
               /\ netCalls' = netCalls + 1
               /\ inflight' = "authorize"
               /\ outcome' = NoOutcome
    /\ UNCHANGED <<device_token, base_url, info, constructed, infoFetches,
                   answered>>
    /\ UNCHANGED <<credentials, refresh_lock, pc, op, req, ret, seen, calls,
                   clearedSince, netAborted, cleared, removed>>

\* The call in flight gets its response and returns.
Respond(r) ==
    /\ inflight \in {"send", "fetch", "authorize"}
    /\ outcome' = CASE inflight = "send" -> Send(r)
                    [] inflight = "fetch" -> fetch_device_info(device_token, r)
                    [] inflight = "authorize" -> authorize_remote_viz(device_token, r)
    /\ answered' = [op |-> inflight, resp |-> r]
    /\ inflight' = "none"
    /\ request' = NoRequest
    /\ UNCHANGED <<device_token, base_url, info, constructed, infoFetches>>
    /\ UNCHANGED vars

NextClient ==
    \/ SetDeviceToken
    \/ \E m \in {"GET", "POST"}, path \in UrlStrings : RequestStart(m, path)
    \/ FetchStart
    \/ \E id \in DeviceIds : AuthorizeStart(id)
    \/ \E r \in Responses : Respond(r)

SpecClient == InitClient /\ [][NextClient]_<<vars, clientVars>>

(***************************************************************************)
(* The provider under fair scheduling.  Every task that can take a step of *)
(* its call takes it, every request that was sent gets its answer, and the *)
(* tokio Mutex is fair, so a task that waits in lock() gets the mutex.     *)
(* Futures are polled to completion: no call is cancelled.                 *)
(***************************************************************************)

\* The load_credentials() calls that may still send their request.
Pending ==
    Cardinality({q \in Procs : op[q] = "load" /\ pc[q] \in {"wait", "locked"}})

\* MaxNet bounds the requests of a behaviour: a call begins only when the
\* calls in progress and itself can all send theirs.
LoadStartWithin(p) == netCalls + Pending < MaxNet /\ LoadStart(p)
RefreshStartWithin(p) == netCalls + Pending < MaxNet /\ RefreshStart(p)

NextFair ==
    \E p \in Procs :
        \/ Clear(p)
        \/ RefreshStartWithin(p)
        \/ LoadStartWithin(p)
        \/ LoadAcquire(p)
        \/ LoadRecheck(p)
        \/ AuthOk(p)
        \/ AuthFail(p)
        \/ Store(p)
        \/ Unlock(p)

Fairness ==
    \A p \in Procs :
        /\ WF_vars(LoadRecheck(p) \/ Store(p) \/ Unlock(p))
        /\ WF_vars(AuthOk(p) \/ AuthFail(p))
        /\ SF_vars(LoadAcquire(p))

SpecFair == Init /\ [][NextFair]_vars /\ Fairness

(***************************************************************************)
(* Device::new followed by the provider's operations on the device.        *)
(***************************************************************************)

\* Before Device::new: FoxgloveApiClient::default() has no token and the
\* default base URL; no device exists.
InitDevice ==
    /\ ProviderNew
    /\ device_token = FALSE
    /\ base_url = DefaultApiUrl
    /\ info = NoInfo
    /\ constructed = "no"
    /\ infoFetches = 0
    /\ request = NoRequest
    /\ inflight = "none"
    /\ answered = NoAnswer
    /\ outcome = NoOutcome

\* Device::new up to the .await of fetch_device_info: the token is set on
\* the new client and the device-info request is sent.
DeviceNewStart ==
    /\ constructed = "no"
    /\ inflight = "none"
    /\ device_token' = TRUE
    /\ request' = BuildRequest("GET", DeviceInfoPath, <<>>)
    /\ infoFetches' = infoFetches + 1
    /\ inflight' = "new"
    /\ UNCHANGED <<base_url, info, constructed, answered, outcome>>
    /\ UNCHANGED vars

\* A Device::new that keeps a fresh default client in the device in place of
\* the one it set the token on.
DeviceNewDoneFreshClient(r) ==
    /\ inflight = "new"
    /\ LET res == fetch_device_info(device_token, r)
       IN  IF res.kind = "Ok"
              THEN /\ info' = r.body.info
                   /\ constructed' = "ok"
                   /\ device_token' = FALSE
                   /\ outcome' = NoOutcome
              ELSE /\ constructed' = "failed"
                   /\ outcome' = res
                   /\ UNCHANGED <<info, device_token>>
    /\ inflight' = "none"
    /\ request' = NoRequest
    /\ UNCHANGED <<base_url, infoFetches, answered>>
    /\ UNCHANGED vars

\* Device::new from the response on: the ? returns the error of
\* fetch_device_info, otherwise the device holds the record and the client.
DeviceNewDone(r) ==
    /\ inflight = "new"
    /\ LET res == fetch_device_info(device_token, r)
       IN  IF res.kind = "Ok"
              THEN /\ info' = r.body.info
                   /\ constructed' = "ok"
                   /\ outcome' = NoOutcome
              ELSE /\ constructed' = "failed"
                   /\ outcome' = res
                   /\ UNCHANGED info
    /\ inflight' = "none"
    /\ request' = NoRequest
    /\ UNCHANGED <<device_token, base_url, infoFetches, answered>>
    /\ UNCHANGED vars

NextDevice ==
    \/ DeviceNewStart
    \/ \E r \in Responses : DeviceNewDone(r)
    \/ Next

SpecDevice == InitDevice /\ [][NextDevice]_<<vars, clientVars>>

\* Only load_credentials() is called: no clear(), no direct refresh().
NextLoad == \E p \in Procs : LoadStep(p)

SpecLoad == Init /\ [][NextLoad]_vars

(***************************************************************************)
(* Properties of the credential cache.                                     *)
(***************************************************************************)

\* Task p's load_credentials() has returned a value to its caller.
LoadReturned(p) ==
    op[p] = "load" /\ pc[p] = "idle" /\ ret[p].kind \in {"ok", "err"}

\* Task p's load_credentials() began on an empty slot after a clear() had
\* returned, and no clear() has run since.
LoadAfterClear(p) ==
    LoadReturned(p) /\ cleared /\ ~clearedSince[p] /\ seen[p] = None

\* C1 as stated: with only load_credentials() calls on a cold cache, exactly
\* one authorization request is sent in total, and every call returns the
\* same credential.
C1_Original ==
    /\ netCalls <= 1
    /\ \A p \in Procs : LoadReturned(p) =>
          /\ netCalls = 1
          /\ ret[p].kind = "ok"
          /\ \A q \in Procs : LoadReturned(q) => ret[q] = ret[p]

\* C1 (amended): with only load_credentials() calls on a cold cache, a
\* further authorization request is sent only after an earlier one failed or
\* was dropped, so exactly one is sent when none fails or is dropped; every
\* call that returns a credential returns the same one, the one in the slot.
C1_SingleFlight ==
    /\ netCalls <= 1 + netAborted
    /\ \A p \in Procs : LoadReturned(p) =>
          /\ netCalls >= 1
          /\ netAborted = 0 => (netCalls = 1 /\ ret[p].kind = "ok")
          /\ ret[p].kind = "ok" =>
                /\ ret[p].val # None
                /\ ret[p].val = credentials
                /\ \A q \in Procs :
                      (LoadReturned(q) /\ ret[q].kind = "ok") => ret[q] = ret[p]

\* Two callers raced on the cold cache: one refreshed, the other waited for
\* the mutex and returned the first one's credential without a request.
C1_Witness ==
    \E p, q \in Procs :
        /\ p # q
        /\ LoadReturned(p) /\ LoadReturned(q)
        /\ calls[p] = 1 /\ calls[q] = 0
        /\ seen[p] = None /\ seen[q] = None
        /\ ret[p] = Ok(req[p]) /\ ret[q] = ret[p]
        /\ netCalls = 1

\* C2: at most one authorization request started from load_credentials() is
\* in flight at any time.
C2_OneRefreshInFlight ==
    Cardinality({p \in Procs : op[p] = "load" /\ pc[p] = "net"}) <= 1

\* One load_credentials() has its request in flight while another waits for
\* the mutex.
C2_Witness ==
    \E p, q \in Procs :
        /\ op[p] = "load" /\ pc[p] = "net"
        /\ op[q] = "load" /\ pc[q] = "wait"

\* C3: a current_credentials() or load_credentials() call that begins while
\* the slot holds a credential returns that credential at once: it sends no
\* request and never takes the mutex.
C3_FastPath ==
    \A p \in Procs :
        (op[p] \in {"current", "load"} /\ seen[p] # None) =>
            /\ pc[p] = "idle"
            /\ ret[p] = Ok(seen[p])
            /\ calls[p] = 0
            /\ refresh_lock # p

\* A load_credentials() returned the cached credential on its first check.
C3_Witness ==
    \E p \in Procs :
        /\ op[p] = "load" /\ seen[p] # None
        /\ ret[p] = Ok(seen[p])
        /\ credentials = seen[p]

\* C4 as stated: a load_credentials() that begins (on the empty slot) after a
\* clear() has returned sends exactly one authorization request.
C4_Original ==
    \A p \in Procs : LoadAfterClear(p) => calls[p] = 1

\* C4 (amended): a load_credentials() that begins on the empty slot after a
\* clear() has returned sends at most one authorization request: exactly one
\* when its check under the mutex still finds the slot empty, and none when
\* another load_credentials() or refresh() installed a credential before
\* that check, in which case it returns that credential.
C4_ClearThenReload ==
    \A p \in Procs : LoadAfterClear(p) =>
        \/ /\ calls[p] = 1
           /\ ret[p] = Ok(req[p]) \/ ret[p].kind = "err"
        \/ /\ calls[p] = 0
           /\ ret[p].kind = "ok"
           /\ ret[p].val # None

\* After a clear() emptied a filled slot, a load_credentials() sent one
\* request and installed the new credential.
C4_Witness ==
    \E p \in Procs :
        /\ LoadAfterClear(p)
        /\ calls[p] = 1
        /\ ret[p] = Ok(req[p])
        /\ credentials = req[p]
        /\ req[p] > 1

\* C5: when the authorization fails, the step that returns the error leaves
\* the slot as it was; and a load_credentials() that finds the slot empty
\* under the mutex sends a request, whatever failed before.
C5_FailureNotCached ==
    [][\A p \in Procs :
          /\ (pc[p] = "net" /\ pc'[p] \notin {"net", "got"}
                /\ ret'[p].kind # "cancelled") =>
                (ret'[p].kind = "err" /\ credentials' = credentials)
          /\ (pc[p] = "locked" /\ pc'[p] # "locked" /\ credentials = None) =>
                (pc'[p] = "net" /\ netCalls' = netCalls + 1
                    /\ calls'[p] = 1 /\ credentials' = None)]_vars

\* A load_credentials() returned an error, the slot is still empty, and the
\* next load_credentials() has its own request in flight.
C5_Witness ==
    \E p, q \in Procs :
        /\ op[q] = "load" /\ pc[q] = "idle" /\ ret[q].kind = "err"
        /\ op[p] = "load" /\ pc[p] = "net" /\ req[p] > req[q]
        /\ credentials = None

\* C6: the mutex is held only by a load_credentials() call that is still
\* running, and a credential is installed only by a call that is still
\* running (never by one that was dropped).
C6_GateReleased ==
    /\ [](\A p \in Procs :
            /\ refresh_lock = p =>
                  (op[p] = "load" /\ pc[p] \in {"locked", "net", "got", "unlock"})
            /\ ret[p].kind \in {"ok", "err", "cancelled"} =>
                  pc[p] \in {"idle", "unlock"})
    /\ [][credentials' \notin {None, credentials} =>
            \E p \in Procs :
                /\ pc[p] = "got"
                /\ ret[p].kind = "none"
                /\ credentials' = req[p]]_vars

\* A load_credentials() was dropped while its request was in flight, and
\* another caller holds the mutex afterwards.
C6_Witness ==
    \E p, q \in Procs :
        /\ op[p] = "load" /\ pc[p] = "idle"
        /\ ret[p] = Cancelled /\ calls[p] = 1
        /\ refresh_lock = q /\ req[q] > req[p]

\* C7: clear() empties the slot whatever is in flight, and a refresh whose
\* request was sent before a clear() still installs its credential when it
\* completes after it.
C7_LastWriteWins ==
    [][\A p \in Procs :
          /\ Clear(p) => credentials' = None
          /\ (pc[p] = "got" /\ pc'[p] # "got") =>
                (credentials' = req[p] /\ credentials' # None)]_vars

\* A refresh() whose request was sent before a clear() completed after it:
\* the slot holds its credential.
C7_Witness ==
    \E p \in Procs :
        /\ op[p] = "refresh" /\ pc[p] = "idle"
        /\ clearedSince[p]
        /\ ret[p] = Ok(req[p])
        /\ credentials = req[p]

\* C8 as stated: whoever is about to install a credential holds the mutex,
\* so at most one task is about to install one.
C8_Original ==
    /\ \A p \in Procs : pc[p] = "got" => refresh_lock = p
    /\ Cardinality({p \in Procs : pc[p] = "got"}) <= 1

\* C8 (amended): a load_credentials() that is about to install a credential
\* holds the mutex, so at most one load_credentials() is about to install
\* one; a refresh() called directly installs its credential without the
\* mutex.
C8_SingleWriter ==
    /\ \A p \in Procs :
          (pc[p] = "got" /\ op[p] = "load") => refresh_lock = p
    /\ \A p \in Procs :
          (pc[p] = "got" /\ op[p] = "refresh") => refresh_lock # p
    /\ Cardinality({p \in Procs : pc[p] = "got" /\ op[p] = "load"}) <= 1

\* A load_credentials() is about to install its credential while another
\* caller waits for the mutex.
C8_Witness ==
    \E p, q \in Procs :
        /\ op[p] = "load" /\ pc[p] = "got" /\ refresh_lock = p
        /\ op[q] = "load" /\ pc[q] = "wait"

\* C9: a task that is not inside a call can always run current_credentials()
\* and clear(), also while another task holds the mutex with a request in
\* flight; both complete in their one step, without the mutex, without a
\* request and without an error.
C9_NeverBlocks ==
    \A p \in Procs :
        /\ pc[p] = "idle" =>
              (ENABLED CurrentCredentials(p) /\ ENABLED Clear(p))
        /\ op[p] \in {"current", "clear"} =>
              /\ pc[p] = "idle"
              /\ ret[p].kind = "ok"
              /\ calls[p] = 0
              /\ refresh_lock # p

\* A clear() ran while another task held the mutex with its request in
\* flight.
C9_Witness ==
    \E p, q \in Procs :
        /\ op[q] = "load" /\ pc[q] = "net" /\ refresh_lock = q
        /\ clearedSince[q]
        /\ op[p] = "clear" /\ pc[p] = "idle"

\* C10: a refresh() call sends one authorization request whether or not the
\* slot holds a credential, and when the request succeeds the slot becomes
\* the new credential, which is also the result.
C10_RefreshUnconditional ==
    /\ [](\A p \in Procs : op[p] = "refresh" =>
            /\ calls[p] = 1
            /\ req[p] \notin {None, seen[p]}
            /\ ret[p].kind = "ok" => ret[p] = Ok(req[p]))
    /\ [][\A p \in Procs :
            (op[p] = "refresh" /\ pc[p] = "got" /\ pc'[p] # "got") =>
                /\ credentials' = req[p]
                /\ ret'[p] = Ok(credentials')
                /\ pc'[p] = "idle"]_vars

\* A refresh() that began on a filled slot replaced the credential.
C10_Witness ==
    \E p \in Procs :
        /\ op[p] = "refresh" /\ pc[p] = "idle"
        /\ seen[p] # None
        /\ ret[p] = Ok(req[p])
        /\ credentials = req[p]
        /\ credentials # seen[p]

(***************************************************************************)
(* Properties of the request layer.                                        *)
(***************************************************************************)

\* C11: without a device token no request is ever sent, and a
\* fetch_device_info or authorize_remote_viz call returns NoToken in its
\* first step, with the request counts and the last request as they were.
C11_NoTokenNoRequest ==
    /\ [](~device_token =>
            (infoFetches = 0 /\ netCalls = 0 /\ inflight \in {"none", "send"}))
    /\ [][(~device_token /\ (FetchStart \/ \E id \in DeviceIds : AuthorizeStart(id))) =>
            /\ outcome' = Result("NoToken", 0, EmptyBody)
            /\ infoFetches' = infoFetches
            /\ netCalls' = netCalls
            /\ request' = request
            /\ inflight' = "none"]_<<vars, clientVars>>

\* A call on a client without a token returned NoToken; nothing was sent.
C11_Witness ==
    /\ ~device_token
    /\ outcome.kind = "NoToken"
    /\ infoFetches = 0 /\ netCalls = 0
    /\ request = NoRequest

\* The status is a client or server error: 400..599.
IsErrorStatus(status) == status \in 400..599

\* The body is a JSON object {error, code?}: error a string, code a string,
\* null or left out.
IsErrorShape(body) ==
    body.form = "json" /\ body.error = "str" /\ body.code # "num"

\* C12: for a response that send() received with a readable body, the
\* result is the response iff the status is not 4xx/5xx, ErrorResponse with
\* the status and the parsed error iff it is 4xx/5xx and the body has the
\* error shape, MalformedErrorResponse with the status and the body text iff
\* it is 4xx/5xx and the body has not; fetch_device_info and
\* authorize_remote_viz never return Ok for a 4xx/5xx status.
C12_Classification ==
    LET r == answered.resp
    IN  /\ (answered.op = "send" /\ r.sendOk /\ r.readable) =>
              /\ outcome.kind \in {"Response", "ErrorResponse", "MalformedErrorResponse"}
              /\ outcome.status = r.status
              /\ outcome.kind = "Response" <=> ~IsErrorStatus(r.status)
              /\ outcome.kind = "ErrorResponse" <=>
                    (IsErrorStatus(r.status) /\ IsErrorShape(r.body))
              /\ outcome.kind = "MalformedErrorResponse" <=>
                    (IsErrorStatus(r.status) /\ ~IsErrorShape(r.body))
              /\ outcome.kind = "ErrorResponse" => outcome.detail = r.body
              /\ (outcome.kind = "MalformedErrorResponse" /\ r.body.form # "binary")
                    => outcome.detail = r.body
        /\ (answered.op \in {"fetch", "authorize"} /\ r.sendOk
               /\ IsErrorStatus(r.status)) =>
              outcome.kind \in {"ErrorResponse", "MalformedErrorResponse"}

\* A 401 with an error body came back as ErrorResponse, status 401.
C12_Witness ==
    /\ answered.op = "send"
    /\ answered.resp.status = 401
    /\ IsErrorShape(answered.resp.body)
    /\ outcome = Result("ErrorResponse", 401, answered.resp.body)

\* C13 as stated: when the body of the response cannot be read, the result of
\* fetch_device_info and authorize_remote_viz is a transport failure
\* (SendRequest or LoadResponseBytes), whatever the status.
C13_UnreadableIsTransport ==
    (answered.op \in {"fetch", "authorize"} /\ answered.resp.sendOk
        /\ ~answered.resp.readable) =>
        outcome.kind \in {"SendRequest", "LoadResponseBytes"}

\* C15: the URL of a request is the base URL up to its trailing slashes, one
\* slash, and the path from its leading slashes on.
C15_UrlJoin ==
    request.method \in {"GET", "POST"} =>
        \E k \in 0..Len(base_url), j \in 1..(Len(request.path) + 1) :
            /\ k = 0 \/ base_url[k] # Slash
            /\ \A i \in (k + 1)..Len(base_url) : base_url[i] = Slash
            /\ j = Len(request.path) + 1 \/ request.path[j] # Slash
            /\ \A i \in 1..(j - 1) : request.path[i] = Slash
            /\ request.url = SubSeq(base_url, 1, k) \o <<Slash>>
                               \o SubSeq(request.path, j, Len(request.path))

\* A base URL that ends in two slashes and a path that begins with two were
\* joined with one.
C15_Witness ==
    /\ base_url = <<97, Slash, Slash>>
    /\ request.path = <<Slash, Slash, 97>>
    /\ request.url = <<97, Slash, 97>>

\* Bytes that stay as they are: ASCII letters and digits, - . _ ~
IsUnreserved(b) ==
    b \in (48..57) \cup (65..90) \cup (97..122) \cup {45, 46, 95, 126}

\* The value of an upper-case hexadecimal digit.
HexValue(d) == IF d <= 57 THEN d - 48 ELSE d - 55

\* Percent-decoding: %XY is the byte 16 X + Y, any other byte is itself.
RECURSIVE PercentDecode(_)
PercentDecode(str) ==
    IF str = <<>> THEN <<>>
    ELSE IF Head(str) = Percent /\ Len(str) >= 3
       THEN <<16 * HexValue(str[2]) + HexValue(str[3])>>
               \o PercentDecode(SubSeq(str, 4, Len(str)))
       ELSE <<Head(str)>> \o PercentDecode(Tail(str))

\* The part of the authorization path between its two literal parts.
IdSegment(path) ==
    SubSeq(path, Len(DevicesPrefix) + 1, Len(path) - Len(RemoteSessionsSuffix))

\* C16: in the path of an authorization request, between the two literal
\* parts, stands the device id with exactly the bytes other than ASCII
\* letters, digits and - . _ ~ written as %XY, once: the segment holds only
\* unreserved bytes and %, is two bytes longer for each encoded byte, and
\* decodes to the id.
C16_PathEncoding ==
    inflight = "authorize" =>
        LET seg == IdSegment(request.path)
            id == request.id
        IN  /\ request.path = DevicesPrefix \o seg \o RemoteSessionsSuffix
            /\ \A i \in 1..Len(seg) : seg[i] = Percent \/ IsUnreserved(seg[i])
            /\ Len(seg) = Len(id)
                  + 2 * Cardinality({i \in 1..Len(id) : ~IsUnreserved(id[i])})
            /\ PercentDecode(seg) = id

\* The id "%/" went into the path as "%25%2F".
C16_Witness ==
    /\ inflight = "authorize"
    /\ request.id = <<Percent, Slash>>
    /\ IdSegment(request.path) = <<Percent, 50, 53, Percent, 50, 70>>

\* C14: a load_credentials() or refresh() call sends at most one
\* authorization request whatever the request ends in; when it fails the
\* call does not send again: it goes on to return the error, one of the
\* variants of the request layer.
C14_OneAttempt ==
    /\ [](\A p \in Procs :
            /\ calls[p] <= 1
            /\ ret[p].kind = "err" =>
                  /\ ret[p].val \in AuthorizeErrors
                  /\ calls[p] = 1
                  /\ pc[p] \in {"idle", "unlock"})
    /\ [][\A p \in Procs :
            (pc[p] = "net" /\ pc'[p] \notin {"net", "got"}) =>
                /\ pc'[p] \in {"idle", "unlock"}
                /\ ret'[p].kind \in {"err", "cancelled"}
                /\ netCalls' = netCalls
                /\ calls'[p] = calls[p]]_vars

\* A load_credentials() and a refresh() returned different errors, each
\* after one request.
C14_Witness ==
    \E p, q \in Procs :
        /\ op[p] = "load" /\ pc[p] = "idle"
        /\ ret[p] = ErrOf("ParseResponse") /\ calls[p] = 1
        /\ op[q] = "refresh" /\ pc[q] = "idle"
        /\ ret[q] = ErrOf("SendRequest") /\ calls[q] = 1

(***************************************************************************)
(* Properties of the device.                                               *)
(***************************************************************************)

\* C17: a Device::new that succeeded sent one device-info request, and no
\* step of a later operation sends another or changes the stored record.
C17_ResolvedOnce ==
    /\ [](/\ infoFetches <= 1
          /\ constructed = "ok" => (infoFetches = 1 /\ info \in InfoIds))
    /\ [][constructed = "ok" =>
            /\ constructed' = "ok"
            /\ info' = info
            /\ infoFetches' = infoFetches]_<<vars, clientVars>>

\* On a constructed device the credentials were loaded, cleared and
\* refreshed; the record is the one of the only lookup.
C17_Witness ==
    /\ constructed = "ok"
    /\ info = <<97>>
    /\ infoFetches = 1
    /\ cleared
    /\ \E p, q \in Procs :
          /\ op[p] = "load" /\ pc[p] = "idle" /\ ret[p].kind = "ok"
          /\ op[q] = "refresh" /\ pc[q] = "idle" /\ ret[q].kind = "ok"

\* C18: on a device from a Device::new that succeeded the token is set in
\* every state, and no load_credentials() or refresh() returns NoToken.
C18_TokenPresent ==
    constructed = "ok" =>
        /\ device_token
        /\ \A p \in Procs : ret[p] # ErrOf("NoToken")

\* On a constructed device a refresh() succeeded and a load_credentials()
\* failed, with an error of the request.
C18_Witness ==
    /\ constructed = "ok"
    /\ device_token
    /\ \E p, q \in Procs :
          /\ op[p] = "refresh" /\ pc[p] = "idle" /\ ret[p].kind = "ok"
          /\ op[q] = "load" /\ pc[q] = "idle" /\ ret[q].kind = "err"
          /\ ret[q].val \in AuthorizeErrors

(***************************************************************************)
(* Properties of concurrent load_credentials() calls that fail or wait.    *)
(***************************************************************************)

\* C19: under fair scheduling, with every request answered, every
\* load_credentials() call in progress returns, whatever clear() and direct
\* refresh() calls run beside it.
C19_LoadReturns ==
    \A p \in Procs : (op[p] = "load" /\ pc[p] # "idle") ~> (pc[p] = "idle")

\* Two load_credentials() calls that found the slot empty have returned: one
\* sent the request, the other waited for the mutex and got the credential
\* from its second look at the slot.
C19_Witness ==
    \E p, q \in Procs :
        /\ p # q
        /\ op[p] = "load" /\ pc[p] = "idle" /\ seen[p] = None
        /\ calls[p] = 0 /\ ret[p].kind = "ok" /\ ret[p].val # None
        /\ op[q] = "load" /\ pc[q] = "idle" /\ seen[q] = None
        /\ calls[q] = 1 /\ ret[q].kind = "ok"

\* C20: a load_credentials() call that returns an error has sent its own
\* request, and sent it holding the mutex; after the second look at an empty
\* slot the call sends a request; two calls that both failed sent two
\* requests, and no two requests of load_credentials() calls are in flight
\* together.
C20_FailuresNotShared ==
    /\ [](\A p, q \in Procs :
            /\ (op[p] = "load" /\ ret[p].kind = "err") =>
                  (calls[p] = 1 /\ req[p] # None)
            /\ (op[p] = "load" /\ pc[p] = "net") => refresh_lock = p
            /\ (p # q /\ op[p] = "load" /\ op[q] = "load"
                   /\ ret[p].kind = "err" /\ ret[q].kind = "err") =>
                  req[p] # req[q]
            /\ (p # q /\ op[p] = "load" /\ op[q] = "load") =>
                  ~(pc[p] = "net" /\ pc[q] = "net"))
    /\ [][\A p \in Procs :
            (pc[p] = "locked" /\ credentials = None /\ pc'[p] # "locked") =>
                /\ pc'[p] = "net"
                /\ calls'[p] = 1
                /\ req'[p] = netCalls'
                /\ netCalls' = netCalls + 1]_vars

\* Two load_credentials() calls on an empty slot have both returned an
\* error: two requests were sent, one after the other, and both failed.
C20_Witness ==
    \E p, q \in Procs :
        /\ p # q
        /\ op[p] = "load" /\ pc[p] = "idle" /\ ret[p].kind = "err"
        /\ op[q] = "load" /\ pc[q] = "idle" /\ ret[q].kind = "err"
        /\ req[p] = 1 /\ req[q] = 2
        /\ netCalls = 2 /\ netAborted = 2
        /\ credentials = None

(***************************************************************************)
(* Properties of reads after clear().                                      *)
(***************************************************************************)

\* The step in which a current_credentials() or load_credentials() call of
\* p gets the credential it returns.
TakesResult(p) ==
    /\ CurrentCredentials(p) \/ (LoadStep(p) /\ (pc[p] = "idle" \/ ret'[p] # ret[p]))
    /\ ret'[p].kind = "ok"
    /\ ret'[p].val # None

\* C21: with one credential per authorization request, the slot never holds
\* a credential that a clear() took out of it; a current_credentials() or
\* load_credentials() call takes its result from the slot or from its own
\* request, and the credential is none that a clear() has taken out so far,
\* so it is none that was in the slot at a clear() that returned before the
\* call began: the result of a call with no clear() since its start is
\* empty or a credential outside the removed ones.
C21_NoStaleRead ==
    /\ [](/\ credentials \notin removed
          /\ \A p \in Procs :
                (op[p] \in {"current", "load"} /\ ret[p].kind = "ok"
                    /\ ~clearedSince[p]) => ret[p].val \notin removed)
    /\ [][\A p \in Procs :
            TakesResult(p) =>
                /\ ret'[p].val \notin removed'
                /\ ret'[p].val \in {credentials, credentials', req[p]}]_vars

\* A clear() took a credential out of the slot; of the calls that began
\* after it, a current_credentials() returned empty and a load_credentials()
\* returned a credential stored later.
C21_Witness ==
    /\ removed # {}
    /\ \E p, q \in Procs :
          /\ op[p] = "current" /\ ~clearedSince[p] /\ ret[p] = Ok(None)
          /\ op[q] = "load" /\ pc[q] = "idle" /\ ~clearedSince[q]
          /\ ret[q].kind = "ok" /\ ret[q].val \in Creds \ removed

====
